---------------------------- MODULE Spec2Model ----------------------------
(***************************************************************************)
(* Model of lcInvestor.py: the configuration (ConfigData), the Lending     *)
(* Club session object (LendingClub: hasCash, hasLoans, buy and the four   *)
(* private gateway wrappers) and the top-level driver loop                 *)
(*     while lc.hasCash() and lc.hasLoans(): lc.buy()                      *)
(*                                                                         *)
(* Conventions.                                                            *)
(*  - Python's None is the empty tuple, a present value x is <<x>>.        *)
(*  - A Python scalar is a tagged record [t, n, s]: t is "int", "dec"      *)
(*    (decimal.Decimal), "float" (a JSON number with a fraction) or "str"; *)
(*    n is the numeric value in hundredths, s the characters of a string.  *)
(*  - Money (cash, invested amounts) is an integer number of hundredths.   *)
(*  - The marketplace is the environment: every response is drawn from a   *)
(*    small set when the request is made.                                  *)
(***************************************************************************)
EXTENDS Integers, Sequences, FiniteSets, TLC

VARIABLES
    pc,          \* position of the main code block (lines 322-327)
    config,      \* ConfigData instance (None until constructed)
    cash,        \* LendingClub.cash       (line 119)
    loans,       \* LendingClub.loans      (line 118)
    portfolioId, \* LendingClub.portfolioId (line 120)
    error,       \* exception that reached the top-level except (line 326)
    calls,       \* history: the gateway requests made so far, in order
    cash0,       \* history: the balance returned by the first __getCash
    listing,     \* history: the loan listing returned by __getLoans' request
    portfolios,  \* history: the portfolio list returned to __getPortfolioId
    cfgFile,     \* history: the configuration file that was read
    invoked,     \* history: how often each public method was called
    casts        \* a value followed by the results of castNum applied in turn

vars == <<pc, config, cash, loans, portfolioId, error, calls, cash0, listing,
          portfolios, cfgFile, invoked, casts>>

\* Longest loan listing the marketplace returns.
MaxLoans == 3

None == <<>>
Some(x) == <<x>>
Val(o) == o[1]

-----------------------------------------------------------------------------
(* Python scalars *)

IntV(k) == [t |-> "int", n |-> k * 100, s |-> <<>>]
DecV(h) == [t |-> "dec", n |-> h, s |-> <<>>]
FloatV(h) == [t |-> "float", n |-> h, s |-> <<>>]
StrV(chars) == [t |-> "str", n |-> 0, s |-> chars]

IsNum(x) == x.t \in {"int", "dec", "float"}

\* A binary float holds a value given in hundredths exactly only when the
\* fraction is a multiple of one quarter (the values used stay below 2^50).
BinaryExact(h) == h % 25 = 0

\* Python 2.7 ==: numbers compare by value across int, float and Decimal; the
\* value of a float is the binary approximation of its JSON literal, so it
\* equals an int or a Decimal only when the literal is exactly representable.
\* A string equals only a string with the same characters.
PyEq(a, b) ==
    IF a.t = "str" \/ b.t = "str"
      THEN a.t = "str" /\ b.t = "str" /\ a.s = b.s
      ELSE /\ a.n = b.n
           /\ (a.t = "float") # (b.t = "float") => BinaryExact(a.n)

-----------------------------------------------------------------------------
(* ConfigData.castNum, lines 66-93 *)

Digits == <<"0", "1", "2", "3", "4", "5", "6", "7", "8", "9">>
IsDigit(c) == \E i \in 1..10 : Digits[i] = c
DigitVal(c) == (CHOOSE i \in 1..10 : Digits[i] = c) - 1

RECURSIVE NatOf(_)
NatOf(ds) ==
    IF ds = <<>> THEN 0
    ELSE NatOf(SubSeq(ds, 1, Len(ds) - 1)) * 10 + DigitVal(ds[Len(ds)])

Signed(chars) == chars # <<>> /\ Head(chars) \in {"+", "-"}
Unsigned(chars) == IF Signed(chars) THEN Tail(chars) ELSE chars
SignOf(chars) == IF chars # <<>> /\ Head(chars) = "-" THEN -1 ELSE 1

\* int(val) accepts an optional sign followed by one or more digits.
IsIntLiteral(chars) ==
    LET b == Unsigned(chars)
    IN  b # <<>> /\ \A i \in 1..Len(b) : IsDigit(b[i])

\* decimal.Decimal(val) accepts an optional sign and digits with at most one
\* point, at least one digit in all (exponents, NaN and Infinity are outside
\* the alphabet of the modelled files; at most two fraction digits).
IsDecLiteral(chars) ==
    LET b == Unsigned(chars)
        dots == {i \in 1..Len(b) : b[i] = "."}
    IN  /\ Cardinality(dots) <= 1
        /\ \A i \in (1..Len(b)) \ dots : IsDigit(b[i])
        /\ Len(b) - Cardinality(dots) >= 1
        /\ \A i \in dots : Len(b) - i <= 2

DecOf(chars) ==
    LET b == Unsigned(chars)
        dots == {i \in 1..Len(b) : b[i] = "."}
        p == IF dots = {} THEN Len(b) + 1 ELSE CHOOSE i \in dots : TRUE
        whole == SubSeq(b, 1, p - 1)
        frac == SubSeq(b, p + 1, Len(b))
        hundredths == IF Len(frac) = 1 THEN NatOf(frac) * 10 ELSE NatOf(frac)
    IN  SignOf(chars) * (NatOf(whole) * 100 + hundredths)

\* int() of a Decimal truncates toward zero.
Trunc(h) == IF h >= 0 THEN (h \div 100) * 100 ELSE -(((-h) \div 100) * 100)

\* Mutant: the decimal parse is tried before the integer parse.
castNumDecimalFirst(val) ==
    CASE val.t = "int" -> DecV(val.n)
      [] val.t \in {"dec", "float"} -> DecV(val.n)
      [] OTHER ->
           IF IsDecLiteral(val.s) THEN DecV(DecOf(val.s)) ELSE val

\* Lines 82-93.  int() of an int is that int, int() of a Decimal truncates
\* it without raising, and only a str that is no integer literal raises the
\* ValueError that leads to the decimal parse.
castNum(val) ==
    CASE val.t = "int" -> val
      [] val.t \in {"dec", "float"} -> [t |-> "int", n |-> Trunc(val.n), s |-> <<>>]
      [] OTHER ->
           IF IsIntLiteral(val.s)
             THEN IntV(SignOf(val.s) * NatOf(Unsigned(val.s)))
           ELSE IF IsDecLiteral(val.s)
             THEN DecV(DecOf(val.s))
           ELSE val


-----------------------------------------------------------------------------
(* ConfigData.__init__, lines 48-64 *)

\* The configuration file: each section is None when absent, otherwise a
\* function from the option names it holds to their raw text.
AccountKeys == {"investorId", "authKey", "reserveCash", "investAmount", "portfolioName"}

Chars(str) ==
    CASE str = "0" -> <<"0">>
      [] str = "1" -> <<"1">>
      [] str = "25" -> <<"2", "5">>
      [] str = "50" -> <<"5", "0">>
      [] str = "30" -> <<"3", "0">>
      [] str = "-25" -> <<"-", "2", "5">>
      [] str = "12.5" -> <<"1", "2", ".", "5">>
      [] str = "36" -> <<"3", "6">>
      [] str = "B" -> <<"B">>
      [] str = "A" -> <<"A">>
      [] str = "Main" -> <<"M", "a", "i", "n">>
      [] str = "main" -> <<"m", "a", "i", "n">>
      [] str = "Other" -> <<"O", "t", "h", "e", "r">>
      [] str = "key" -> <<"k", "e", "y">>

InvestRaw == {"25", "50", "30", "-25", "0", "B", "12.5"}
ReserveRaw == {"0", "12.5", "B"}
CriteriaRaw ==
    { <<>>,
      [grade |-> Chars("B"), term |-> Chars("36")] }

AccountSection(invest, reserve) ==
    [investorId |-> Chars("1"), authKey |-> Chars("key"),
     reserveCash |-> Chars(reserve), investAmount |-> Chars(invest),
     portfolioName |-> Chars("Main")]

Without(f, k) == [x \in (DOMAIN f) \ {k} |-> f[x]]

ConfigFiles ==
    { [account |-> Some(AccountSection(i, r)), criteria |-> Some(c)] :
          i \in InvestRaw, r \in ReserveRaw, c \in CriteriaRaw }
    \cup { [account |-> Some(Without(AccountSection("25", "0"), k)),
            criteria |-> Some(<<>>)] : k \in AccountKeys }
    \cup { [account |-> None, criteria |-> Some(<<>>)],
           [account |-> Some(AccountSection("25", "0")), criteria |-> None] }

\* Line 56.  In Python 2 a str is never less than an int, and str % int is
\* string formatting, which raises TypeError for a string with no format
\* specifier.
\* Mutant: the multiple-of-25 test is left out.
InvestAmountAtLeast(v) ==
    IF v.t = "str" THEN "TypeError"
    ELSE IF v.n < 25 * 100 THEN "RuntimeError"
    ELSE "none"

InvestAmountError(v) ==
    IF v.t = "str" THEN "TypeError"
    ELSE IF v.n < 25 * 100 \/ v.n % (25 * 100) # 0 THEN "RuntimeError"
    ELSE "none"

\* self.criteria is a dict: the order in which __getLoans iterates over it
\* is the hash order of its keys, which the model leaves open.  A criteria
\* dict is held as a sequence of <<key, value>> pairs in iteration order.
IterationOrders(S) ==
    { q \in [1..Cardinality(S) -> S] :
          \A i, j \in 1..Cardinality(S) : i # j => q[i] # q[j] }

CriteriaDicts(section) ==
    { [i \in DOMAIN q |-> <<q[i], castNum(StrV(section[q[i]]))>>] :
          q \in IterationOrders(DOMAIN section) }

\* The exception ConfigData.__init__ raises on file f, or "none".
ConfigError(f) ==
    IF f.account = None THEN "NoSectionError"
    ELSE LET a == Val(f.account) IN
      IF \E k \in {"investorId", "authKey", "reserveCash", "investAmount"} :
             k \notin DOMAIN a
        THEN "NoOptionError"
      ELSE IF InvestAmountError(castNum(StrV(a.investAmount))) # "none"
        THEN InvestAmountError(castNum(StrV(a.investAmount)))
      ELSE IF "portfolioName" \notin DOMAIN a THEN "NoOptionError"
      ELSE IF f.criteria = None THEN "NoSectionError"
      ELSE "none"

ConfigData(f, crit) ==
    LET a == Val(f.account) IN
    [investorId |-> castNum(StrV(a.investorId)),
     authKey |-> a.authKey,
     reserveCash |-> castNum(StrV(a.reserveCash)),
     investAmount |-> castNum(StrV(a.investAmount)),
     portfolioName |-> a.portfolioName,
     criteria |-> crit]

-----------------------------------------------------------------------------
(* The marketplace: responses of the four gateway operations *)

CashValues == {0, 60 * 100, 100 * 100}

\* A raw loan record: id, the criterion-matchable fields it carries, and the
\* two amounts (JSON numbers with a fraction part, as the marketplace sends
\* them), in whole currency units.
Loan(id, grade, term, funded, amount) ==
    [id |-> id,
     fields |-> [grade |-> StrV(Chars(grade)), term |-> IntV(term)],
     fundedAmount |-> funded, loanAmount |-> amount]

LoanRecords ==
    { Loan(1, "B", 36, 50, 100),
      Loan(2, "B", 36, 1, 2),
      Loan(3, "B", 36, 75, 100),
      Loan(3, "B", 36, 0, 0),
      Loan(2, "B", 60, 3, 4),
      [id |-> 1, fields |-> [grade |-> StrV(Chars("A"))],
       fundedAmount |-> 0, loanAmount |-> 0] }

Listings == UNION { [1..k -> LoanRecords] : k \in 0..MaxLoans }

Portfolio(name, id) == [portfolioName |-> Chars(name), portfolioId |-> id]

\* A portfolio id is a JSON number, or null (None).
PortfolioLists ==
    { <<>>,
      <<Portfolio("Main", Some(7))>>,
      <<Portfolio("main", Some(8))>>,
      <<Portfolio("Other", Some(9)), Portfolio("Main", Some(7))>>,
      <<Portfolio("Main", None)>> }

\* status: the transport status is a success; body: what the response holds.
CashResponses ==
    {[ok |-> FALSE, cash |-> 0]} \cup {[ok |-> TRUE, cash |-> c] : c \in CashValues}
LoanResponses ==
    {[ok |-> FALSE, loans |-> <<>>]} \cup {[ok |-> TRUE, loans |-> l] : l \in Listings}
PortfolioResponses ==
    {[ok |-> FALSE, myPortfolios |-> <<>>]}
    \cup {[ok |-> TRUE, myPortfolios |-> p] : p \in PortfolioLists}

\* Stands for the response of a request that is not made.
NoResponse == [ok |-> FALSE]

\* A submit-order response: transport status, whether the body carries an
\* 'errors' array, and the investedAmount of orderConfirmations[0] (None
\* when the body carries no confirmation).
InvestedAmounts == {0, 25 * 100, 50 * 100}
OrderResponses ==
    { [ok |-> FALSE, errors |-> e, invested |-> None] : e \in BOOLEAN }
    \cup { [ok |-> TRUE, errors |-> FALSE, invested |-> None] }
    \cup { [ok |-> TRUE, errors |-> FALSE, invested |-> Some(a)] : a \in InvestedAmounts }
    \cup { [ok |-> TRUE, errors |-> TRUE, invested |-> Some(0)] }

\* One entry of the history of gateway requests.  An order's entry holds the
\* candidate that was popped for it, the amount requested and the response.
Call(op, ok) ==
    [op |-> op, ok |-> ok, loanId |-> 0, ratio |-> <<0, 1>>, requested |-> 0,
     errors |-> FALSE, invested |-> None]
OrderCall(candidate, requested, resp) ==
    [op |-> "submitOrder", ok |-> resp.ok, loanId |-> candidate[1],
     ratio |-> candidate[2], requested |-> requested,
     errors |-> resp.errors, invested |-> resp.invested]

-----------------------------------------------------------------------------
(* LendingClub.__getLoans, lines 163-183 *)

RECURSIVE GCD(_, _)
GCD(a, b) == IF b = 0 THEN a ELSE GCD(b, a % b)

\* fundedAmount / loanAmount, kept exact as a fraction in lowest terms.
Ratio(funded, amount) ==
    LET g == GCD(funded, amount) IN <<funded \div g, amount \div g>>
RatioGE(r1, r2) == r1[1] * r2[2] >= r2[1] * r1[2]

\* Lines 172-178 for one loan: "match" when line 179 is reached, "nomatch"
\* when the loop over the criteria ends without reaching it, "KeyError" when
\* the loan lacks the field a criterion names.
\* Mutant: the loan is taken as soon as one criterion matches.
CheckCriteriaAny(loan, criteria, i, numChecked) ==
    IF i > Len(criteria) THEN "nomatch"
    ELSE IF criteria[i][1] \notin DOMAIN loan.fields THEN "KeyError"
    ELSE IF PyEq(loan.fields[criteria[i][1]], criteria[i][2]) THEN "match"
    ELSE "nomatch"

RECURSIVE CheckCriteria(_, _, _, _)
CheckCriteria(loan, criteria, i, numChecked) ==
    IF i > Len(criteria) THEN "nomatch"
    ELSE IF criteria[i][1] \notin DOMAIN loan.fields THEN "KeyError"
    ELSE IF PyEq(loan.fields[criteria[i][1]], criteria[i][2])
      THEN IF numChecked + 1 = Len(criteria) THEN "match"
           ELSE CheckCriteria(loan, criteria, i + 1, numChecked + 1)
    ELSE "nomatch"

Put(dict, k, v) == [x \in (DOMAIN dict) \cup {k} |-> IF x = k THEN v ELSE dict[x]]

\* Lines 170-181: the loop over the listing, from record i on, with loanDict
\* as built so far.  An exception ends the loop.
RECURSIVE FilterLoans(_, _, _, _)
FilterLoans(records, criteria, i, loanDict) ==
    IF i > Len(records) THEN [err |-> "none", dict |-> loanDict]
    ELSE LET loan == records[i]
             m == CheckCriteria(loan, criteria, 1, 0)
         IN  IF m = "KeyError" THEN [err |-> "KeyError", dict |-> loanDict]
             ELSE IF m = "nomatch"
               THEN FilterLoans(records, criteria, i + 1, loanDict)
             ELSE IF loan.loanAmount = 0
               THEN [err |-> "ZeroDivisionError", dict |-> loanDict]
             ELSE FilterLoans(records, criteria, i + 1,
                      Put(loanDict, loan.id, Ratio(loan.fundedAmount, loan.loanAmount)))

\* loanDict.items(): a Python 2 dict of small non-negative ints, with at most
\* five entries, lists its keys by hash slot, key mod 8 (no collisions for
\* keys below 8).
RECURSIVE DictItems(_)
DictItems(dict) ==
    IF DOMAIN dict = {} THEN <<>>
    ELSE LET k == CHOOSE x \in DOMAIN dict :
                      \A y \in DOMAIN dict : x % 8 <= y % 8
         IN  <<<<k, dict[k]>>>> \o DictItems([x \in (DOMAIN dict) \ {k} |-> dict[x]])

\* Mutant: an item goes before the items of equal ratio already placed.
InsertDescBeforeEqual(sorted, item) ==
    LET p == Cardinality({j \in 1..Len(sorted) :
                              RatioGE(sorted[j][2], item[2]) /\ sorted[j][2] # item[2]})
    IN  SubSeq(sorted, 1, p) \o <<item>> \o SubSeq(sorted, p + 1, Len(sorted))

\* sorted(items, key=itemgetter(1), reverse=True): descending by ratio, items
\* of equal ratio in the order they had in items.
InsertDesc(sorted, item) ==
    LET p == Cardinality({j \in 1..Len(sorted) : RatioGE(sorted[j][2], item[2])})
    IN  SubSeq(sorted, 1, p) \o <<item>> \o SubSeq(sorted, p + 1, Len(sorted))

\* Mutant: the items are returned unsorted.
SortedNot(items) == items

RECURSIVE SortedDesc(_)
SortedDesc(items) ==
    IF items = <<>> THEN <<>>
    ELSE InsertDesc(SortedDesc(SubSeq(items, 1, Len(items) - 1)), items[Len(items)])

\* __getLoans on response resp: the exception raised ("none" if none) and
\* the list returned.
getLoans(resp, criteria) ==
    IF ~resp.ok THEN [err |-> "HTTPError", loans |-> <<>>]
    ELSE LET f == FilterLoans(resp.loans, criteria, 1, <<>>)
         IN  IF f.err # "none" THEN [err |-> f.err, loans |-> <<>>]
             ELSE [err |-> "none", loans |-> SortedDesc(DictItems(f.dict))]

-----------------------------------------------------------------------------
(* LendingClub.__getPortfolioId, lines 200-213 *)

\* The local variable portfolioId is assigned only inside the loop (line
\* 206); reading it on line 210 when no name matched raises
\* UnboundLocalError.  Line 211 is reached only when the matching entry's
\* id is null.
\* Mutant: no id found is returned as None instead of raised.
getPortfolioIdUnchecked(resp, portfolioName) ==
    IF ~resp.ok THEN [err |-> "HTTPError", id |-> None]
    ELSE LET ps == resp.myPortfolios
             hits == {i \in 1..Len(ps) : ps[i].portfolioName = portfolioName}
         IN  IF hits = {} THEN [err |-> "none", id |-> None]
             ELSE LET first == CHOOSE i \in hits : \A j \in hits : i <= j
                  IN  [err |-> "none", id |-> ps[first].portfolioId]

getPortfolioId(resp, portfolioName) ==
    IF ~resp.ok THEN [err |-> "HTTPError", id |-> None]
    ELSE LET ps == resp.myPortfolios
             hits == {i \in 1..Len(ps) : ps[i].portfolioName = portfolioName}
         IN  IF hits = {} THEN [err |-> "UnboundLocalError", id |-> None]
             ELSE LET first == CHOOSE i \in hits : \A j \in hits : i <= j
                  IN  IF ps[first].portfolioId = None
                        THEN [err |-> "RuntimeError", id |-> None]
                        ELSE [err |-> "none", id |-> ps[first].portfolioId]

-----------------------------------------------------------------------------
(* LendingClub.__postOrder, lines 231-253 *)

\* The 'errors' array is only logged (lines 243-245); what raises is the
\* transport status (line 246) or a body without orderConfirmations
\* (line 249).
\* Mutant: the requested amount is returned as the amount invested.
postOrderRequested(loanId, requestedAmount, resp) ==
    IF ~resp.ok THEN [err |-> "HTTPError", invested |-> 0]
    ELSE IF resp.invested = None THEN [err |-> "KeyError", invested |-> 0]
    ELSE [err |-> "none", invested |-> requestedAmount]

postOrder(loanId, requestedAmount, resp) ==
    IF ~resp.ok THEN [err |-> "HTTPError", invested |-> 0]
    ELSE IF resp.invested = None THEN [err |-> "KeyError", invested |-> 0]
    ELSE [err |-> "none", invested |-> Val(resp.invested)]

-----------------------------------------------------------------------------
(* The session object and the main code block *)

Init ==
    /\ pc = "start"
    /\ config = None
    /\ cash = None
    /\ loans = None
    /\ portfolioId = None
    /\ error = "none"
    /\ calls = <<>>
    /\ cash0 = None
    /\ listing = None
    /\ portfolios = None
    /\ cfgFile = None
    /\ invoked = [hasCash |-> 0, hasLoans |-> 0, buy |-> 0]
    /\ casts = <<>>

\* Line 323: ConfigData(CONFIG_FILENAME), then LendingClub(config), lines
\* 116-120.  An exception of the constructor goes to line 326.
Construct(f, ready) ==
    /\ pc = "start"
    /\ cfgFile' = Some(f)
    /\ IF ConfigError(f) # "none"
         THEN /\ error' = ConfigError(f)
              /\ pc' = "failed"
              /\ config' = None
         ELSE /\ \E crit \in CriteriaDicts(Val(f.criteria)) :
                     config' = Some(ConfigData(f, crit))
              /\ pc' = ready
              /\ error' = "none"
    /\ cash' = None
    /\ loans' = None
    /\ portfolioId' = None
    /\ UNCHANGED <<calls, cash0, listing, portfolios, invoked, casts>>

\* Mutant: the stored value is never used.
IsNoneAlways(field) == TRUE
\* The lazy-fetch test "if self.x is None" of lines 268, 293 and 315.
IsNone(field) == field = None

\* Lines 271-278: the value hasCash returns.
investMin(c, cfg) == c - cfg.reserveCash.n - cfg.investAmount.n
\* Mutant: cash equal to reserve plus one investment is not enough.
HasCashStrict(c, cfg) == investMin(c, cfg) > 0
\* Mutant: the reserve is left out of the test.
HasCashNoReserve(c, cfg) == c - cfg.investAmount.n >= 0
HasCashReturn(c, cfg) == investMin(c, cfg) >= 0

\* hasCash(), lines 267-278; resp is the account summary's response, used
\* when the balance is requested.  availableCash becomes a Decimal through
\* str(), which is exact for the amounts of the model.  Decimal - str (a
\* reserveCash that castNum left a string) raises TypeError on line 271.
hasCash(resp) ==
    /\ invoked' = [invoked EXCEPT !.hasCash = @ + 1]
    /\ IF IsNone(cash)
         THEN /\ calls' = Append(calls, Call("getCash", resp.ok))
              /\ cash' = IF resp.ok THEN Some(resp.cash) ELSE cash
              /\ cash0' = IF resp.ok THEN Some(resp.cash) ELSE cash0
              /\ error' = IF ~resp.ok THEN "HTTPError"
                          ELSE IF ~IsNum(Val(config).reserveCash) THEN "TypeError"
                          ELSE "none"
         ELSE /\ UNCHANGED <<calls, cash, cash0>>
              /\ error' = IF ~IsNum(Val(config).reserveCash) THEN "TypeError"
                          ELSE "none"
    /\ UNCHANGED <<config, loans, portfolioId, listing, portfolios, cfgFile, casts>>

\* hasLoans(), lines 292-298.
hasLoans(resp) ==
    /\ invoked' = [invoked EXCEPT !.hasLoans = @ + 1]
    /\ IF IsNone(loans)
         THEN LET r == getLoans(resp, Val(config).criteria) IN
              /\ calls' = Append(calls, Call("listLoans", resp.ok))
              /\ listing' = IF resp.ok THEN Some(resp.loans) ELSE listing
              /\ error' = r.err
              /\ loans' = IF r.err = "none" THEN Some(r.loans) ELSE loans
         ELSE /\ UNCHANGED <<calls, listing, loans>>
              /\ error' = "none"
    /\ UNCHANGED <<config, cash, portfolioId, cash0, portfolios, cfgFile, casts>>

\* self.loans.pop(0), line 317: the list that is left.
\* Mutant: the first candidate is read and left in the list.
PopKeep(list) == list
\* Mutant: pop() instead of pop(0), the last candidate is removed.
PopLast(list) == SubSeq(list, 1, Len(list) - 1)
Pop(list) == Tail(list)

\* buy(), lines 314-318.  presp and oresp are the responses of the portfolio
\* list and of the order, used when those requests are made.  Line 317 reads
\* self.cash, pops the first candidate, posts the order and only then
\* subtracts and stores: an exception of the pop or of the order leaves cash
\* as it was, and an exception of the order leaves the candidate popped.
buy(presp, oresp) ==
    LET cfg == Val(config)
        lookup == IsNone(portfolioId)
        p == getPortfolioId(presp, cfg.portfolioName)
        calls1 == IF lookup THEN Append(calls, Call("listPortfolios", presp.ok))
                  ELSE calls
        pid == IF lookup THEN p.id ELSE portfolioId
    IN  /\ invoked' = [invoked EXCEPT !.buy = @ + 1]
        /\ portfolios' = IF lookup /\ presp.ok THEN Some(presp.myPortfolios)
                         ELSE portfolios
        /\ IF lookup /\ p.err # "none"
             THEN /\ error' = p.err
                  /\ calls' = calls1
                  /\ UNCHANGED <<portfolioId, loans, cash>>
           ELSE IF loans = None
             THEN /\ error' = "AttributeError"
                  /\ calls' = calls1
                  /\ portfolioId' = pid
                  /\ UNCHANGED <<loans, cash>>
           ELSE IF Val(loans) = <<>>
             THEN /\ error' = "IndexError"
                  /\ calls' = calls1
                  /\ portfolioId' = pid
                  /\ UNCHANGED <<loans, cash>>
           ELSE LET candidate == Head(Val(loans))
                    o == postOrder(candidate[1], cfg.investAmount.n, oresp)
                IN  /\ portfolioId' = pid
                    /\ loans' = Some(Pop(Val(loans)))
                    /\ calls' = Append(calls1,
                                   OrderCall(candidate, cfg.investAmount.n, oresp))
                    /\ IF o.err # "none"
                         THEN error' = o.err /\ UNCHANGED cash
                       ELSE IF cash = None
                         THEN error' = "TypeError" /\ UNCHANGED cash
                       ELSE error' = "none" /\ cash' = Some(Val(cash) - o.invested)
        /\ UNCHANGED <<config, cash0, listing, cfgFile, casts>>

-----------------------------------------------------------------------------
(* Main code block, lines 322-327 *)

\* try/except around the block: an exception ends the run (line 326-327),
\* otherwise control goes on to next.
\* Mutant: the loop is entered again after an exception.
UnwindRetry(err, next) == IF err # "none" THEN "hasCash" ELSE next
Unwind(err, next) == IF err # "none" THEN "failed" ELSE next

LoadConfig == \E f \in ConfigFiles : Construct(f, "hasCash")

\* Mutant: the right operand is evaluated whatever the left one returned.
DriverHasCashNoShortCircuit ==
    /\ pc = "hasCash"
    /\ \E resp \in IF IsNone(cash) THEN CashResponses ELSE {NoResponse} :
          hasCash(resp)
    /\ pc' = Unwind(error', "hasLoans")

\* The loop condition's left operand.
DriverHasCash ==
    /\ pc = "hasCash"
    /\ \E resp \in IF IsNone(cash) THEN CashResponses ELSE {NoResponse} :
          hasCash(resp)
    /\ pc' = Unwind(error', IF HasCashReturn(Val(cash'), Val(config))
                              THEN "hasLoans" ELSE "done")

\* Mutant: the loop body is entered whatever hasLoans() returned.
DriverHasLoansIgnored ==
    /\ pc = "hasLoans"
    /\ \E resp \in IF IsNone(loans) THEN LoanResponses ELSE {NoResponse} :
          hasLoans(resp)
    /\ pc' = Unwind(error', "buy")

\* The loop condition's right operand, evaluated when the left one is true.
DriverHasLoans ==
    /\ pc = "hasLoans"
    /\ \E resp \in IF IsNone(loans) THEN LoanResponses ELSE {NoResponse} :
          hasLoans(resp)
    /\ pc' = Unwind(error', IF Len(Val(loans')) > 0 THEN "buy" ELSE "done")

\* Mutant: the body is run again without the loop condition.
DriverBuyAgain ==
    /\ pc = "buy"
    /\ \E presp \in IF IsNone(portfolioId) THEN PortfolioResponses ELSE {NoResponse},
          oresp \in OrderResponses : buy(presp, oresp)
    /\ pc' = Unwind(error', "buy")

\* The loop body.
DriverBuy ==
    /\ pc = "buy"
    /\ \E presp \in IF IsNone(portfolioId) THEN PortfolioResponses ELSE {NoResponse},
          oresp \in OrderResponses : buy(presp, oresp)
    /\ pc' = Unwind(error', "hasCash")

Next == LoadConfig \/ DriverHasCash \/ DriverHasLoans \/ DriverBuy

Spec == Init /\ [][Next]_vars

-----------------------------------------------------------------------------
(* The session object under any caller: the public methods in any order,   *)
(* until one of them raises.                                               *)

\* Most method calls of one session of the free caller.
MaxCalls == 6
\* Longest loan listing the free caller's marketplace returns.
MaxApiLoans == 2

ApiConfigFiles ==
    { [account |-> Some(AccountSection(i, "0")), criteria |-> Some(c)] :
          i \in {"25", "50"}, c \in CriteriaRaw }
ApiLoanRecords ==
    { Loan(1, "B", 36, 50, 100), Loan(3, "B", 36, 75, 100), Loan(3, "B", 36, 0, 0) }
ApiLoanResponses ==
    {[ok |-> FALSE, loans |-> <<>>]}
    \cup {[ok |-> TRUE, loans |-> l] :
              l \in UNION { [1..k -> ApiLoanRecords] : k \in 0..MaxApiLoans }}
TotalInvoked == invoked.hasCash + invoked.hasLoans + invoked.buy

ApiConstruct == \E f \in ApiConfigFiles : Construct(f, "api")

ApiHasCash ==
    /\ pc = "api" /\ TotalInvoked < MaxCalls
    /\ \E resp \in IF IsNone(cash) THEN CashResponses ELSE {NoResponse} :
          hasCash(resp)
    /\ pc' = Unwind(error', "api")

ApiHasLoans ==
    /\ pc = "api" /\ TotalInvoked < MaxCalls
    /\ \E resp \in IF IsNone(loans) THEN ApiLoanResponses ELSE {NoResponse} :
          hasLoans(resp)
    /\ pc' = Unwind(error', "api")

ApiBuy ==
    /\ pc = "api" /\ TotalInvoked < MaxCalls
    /\ \E presp \in IF IsNone(portfolioId) THEN PortfolioResponses ELSE {NoResponse},
          oresp \in OrderResponses : buy(presp, oresp)
    /\ pc' = Unwind(error', "api")

ApiNext == ApiConstruct \/ ApiHasCash \/ ApiHasLoans \/ ApiBuy

ApiSpec == Init /\ [][ApiNext]_vars

-----------------------------------------------------------------------------
(* castNum on its own: a text is cast, and the result is cast again *)

\* Longest text that is cast.
MaxLen == 4

CastAlphabet == {"-", "+", ".", "0", "1", "2", "5", "B"}

\* Digits after the point of a text (0 without a point).
FractionDigits(chars) ==
    LET dots == {i \in 1..Len(chars) : chars[i] = "."}
    IN  IF dots = {} THEN 0
        ELSE Len(chars) - (CHOOSE i \in dots : \A j \in dots : i <= j)

\* The texts: those with at most two digits after the point, the
\* resolution of the numbers of the model.
CastInputs ==
    { c \in UNION { [1..k -> CastAlphabet] : k \in 0..MaxLen } : FractionDigits(c) <= 2 }

CastInit ==
    /\ pc = "cast"
    /\ config = None
    /\ cash = None
    /\ loans = None
    /\ portfolioId = None
    /\ error = "none"
    /\ calls = <<>>
    /\ cash0 = None
    /\ listing = None
    /\ portfolios = None
    /\ cfgFile = None
    /\ invoked = [hasCash |-> 0, hasLoans |-> 0, buy |-> 0]
    /\ \E c \in CastInputs : casts = <<StrV(c)>>

CastStep ==
    /\ pc = "cast"
    /\ Len(casts) < 3
    /\ casts' = Append(casts, castNum(casts[Len(casts)]))
    /\ UNCHANGED <<pc, config, cash, loans, portfolioId, error, calls, cash0,
                   listing, portfolios, cfgFile, invoked>>

CastSpec == CastInit /\ [][CastStep]_vars

-----------------------------------------------------------------------------
(* Properties *)

Orders == {i \in DOMAIN calls : calls[i].op = "submitOrder"}
\* The orders __postOrder returned from: confirmed by the marketplace.
Confirmed == {i \in Orders : calls[i].ok /\ calls[i].invested # None}
CallsOf(op) == {i \in DOMAIN calls : calls[i].op = op}

RECURSIVE SumInvested(_)
SumInvested(S) ==
    IF S = {} THEN 0
    ELSE LET i == CHOOSE x \in S : TRUE
         IN  Val(calls[i].invested) + SumInvested(S \ {i})

\* The list __getLoans returned is still whole: nothing was popped from it.
Produced == loans # None /\ Orders = {}

\* Loan record r equals criteria C's value on every key of C.
MatchesAll(r, C) ==
    \A j \in DOMAIN C :
        /\ C[j][1] \in DOMAIN r.fields
        /\ PyEq(r.fields[C[j][1]], C[j][2])

CandidateIds == {Val(loans)[i][1] : i \in DOMAIN Val(loans)}

\* C1: with a non-empty criteria mapping, a loan id is among the candidates
\* the filter produced exactly when some record of the listing with that id
\* equals the criteria's value on every key; and there are no more
\* candidates than records.
C1_FilterIff ==
    (Produced /\ Val(config).criteria # <<>>) =>
        LET L == Val(listing)
            C == Val(config).criteria
        IN  /\ \A i \in DOMAIN L : MatchesAll(L[i], C) => L[i].id \in CandidateIds
            /\ \A id \in CandidateIds :
                   \E i \in DOMAIN L : L[i].id = id /\ MatchesAll(L[i], C)
            /\ Len(Val(loans)) <= Len(L)

\* A listing with a matching record, a repeated id and a record that fails
\* a criterion, filtered to fewer candidates than records.
C1_Witness ==
    /\ Produced /\ Val(config).criteria # <<>>
    /\ LET L == Val(listing)
           C == Val(config).criteria
       IN  /\ \E i, j \in DOMAIN L :
                  i # j /\ L[i].id = L[j].id /\ MatchesAll(L[i], C) /\ ~MatchesAll(L[j], C)
           /\ Len(Val(loans)) = 2
           /\ Len(L) = 3

\* C2: whenever the candidate list is resolved it is ordered by funding
\* ratio, highest first; and the loans ordered so far were ordered in
\* non-increasing ratio, none below a candidate still in the list.
C2_Descending ==
    loans # None =>
        LET l == Val(loans) IN
        /\ \A i \in 1..(Len(l) - 1) :
               l[i][2][1] * l[i + 1][2][2] >= l[i + 1][2][1] * l[i][2][2]
        /\ \A i, j \in Orders :
               i < j => calls[i].ratio[1] * calls[j].ratio[2]
                            >= calls[j].ratio[1] * calls[i].ratio[2]
        /\ \A i \in Orders, k \in DOMAIN l :
               calls[i].ratio[1] * l[k][2][2] >= l[k][2][1] * calls[i].ratio[2]

\* Two orders were placed, for loans of different ratio, the first of them
\* for a loan with a higher id than the second, and a candidate is left.
C2_Witness ==
    /\ loans # None /\ Len(Val(loans)) >= 1
    /\ \E i, j \in Orders :
           /\ i < j
           /\ calls[i].loanId > calls[j].loanId
           /\ calls[i].ratio # calls[j].ratio

Max(a, b) == IF a >= b THEN a ELSE b
Min(a, b) == IF a <= b THEN a ELSE b

\* Every order was confirmed for exactly the amount requested.
AllExact ==
    \A i \in Orders : calls[i].ok /\ calls[i].invested = Some(calls[i].requested)

\* C3: when the loop has ended normally and every order was confirmed for
\* exactly investAmount, the number of purchases is
\* min(max(floor((c - r) / a), 0), k) for fetched cash c, reserve r, invest
\* amount a and k candidates; the loop stopped on hasCash() when cash ran
\* out first and on hasLoans() when the candidates ran out first.
C3_Purchases ==
    (pc = "done" /\ AllExact) =>
        LET c == Val(cash0)
            r == Val(config).reserveCash.n
            a == Val(config).investAmount.n
            n == Max((c - r) \div a, 0)
            p == Cardinality(Orders)
            enough == Val(cash) - r - a >= 0
        IN  IF loans = None THEN p = 0 /\ n = 0
            ELSE LET k == Len(Val(loans)) + p
                 IN  /\ p = Min(n, k)
                     /\ n < k => ~enough
                     /\ k < n => enough /\ Val(loans) = <<>>

\* Cash for two exact purchases and three candidates: the loop ended after
\* the second purchase, on hasCash(), with a candidate left.
C3_Witness ==
    /\ pc = "done" /\ AllExact
    /\ Cardinality(Orders) = 2
    /\ loans # None /\ Len(Val(loans)) = 1
    /\ Val(cash0) - Val(config).reserveCash.n = 2 * Val(config).investAmount.n

\* C4: once fetched, local cash is the fetched balance less the sum of the
\* amounts the marketplace confirmed for the orders that succeeded; an
\* order that failed took nothing.
C4_CashBalance ==
    cash # None => Val(cash) = Val(cash0) - SumInvested(Confirmed)

\* An order was confirmed for a positive amount other than the one
\* requested, and a later order failed.
C4_Witness ==
    /\ cash # None
    /\ pc = "failed"
    /\ \E i \in Confirmed, j \in Orders \ Confirmed :
           /\ i < j
           /\ Val(calls[i].invested) > 0
           /\ Val(calls[i].invested) # calls[i].requested

\* The gateway's read operations.
Reads == {"getCash", "listLoans", "listPortfolios"}

\* C5: in any sequence of hasCash(), hasLoans() and buy() calls, no read
\* operation of the gateway is invoked again after it has succeeded: each
\* value is fetched by the first call of its method and later calls use
\* the stored one, an empty candidate list included.
C5_FetchOnce ==
    /\ \A i, j \in DOMAIN calls :
           (i < j /\ calls[i].op \in Reads /\ calls[i].ok) => calls[j].op # calls[i].op
    /\ cash # None => Cardinality(CallsOf("getCash")) = 1
    /\ loans # None => Cardinality(CallsOf("listLoans")) = 1
    /\ portfolioId # None => Cardinality(CallsOf("listPortfolios")) = 1

\* Each method was called twice, two orders were placed and each read
\* operation was invoked once.
C5_Witness ==
    /\ invoked.hasCash >= 2 /\ invoked.hasLoans >= 2 /\ invoked.buy >= 2
    /\ Cardinality(Orders) = 2
    /\ \A op \in Reads : Cardinality(CallsOf(op)) = 1

RawInvest == Val(Val(cfgFile).account).investAmount

\* C6: a configuration is constructed only with an investAmount that is
\* greater than 0 and divisible by 25 (50 is accepted, 30 and -25 are not);
\* when construction fails, for the amount or for a missing section or
\* key, the run has failed and no gateway operation is ever invoked.
C6_ConfigValid ==
    pc # "start" =>
        /\ config # None =>
               /\ IsNum(Val(config).investAmount)
               /\ Val(config).investAmount.n > 0
               /\ Val(config).investAmount.n % (25 * 100) = 0
        /\ config = None => pc = "failed" /\ calls = <<>>
        /\ ConfigError(Val(cfgFile)) = "none" <=> config # None
        /\ (Val(cfgFile).account # None /\ "investAmount" \in DOMAIN Val(Val(cfgFile).account)) =>
               /\ RawInvest \in {Chars("30"), Chars("-25")} => config = None
               /\ (RawInvest = Chars("50") /\ Val(cfgFile).criteria # None
                      /\ DOMAIN Val(Val(cfgFile).account) = AccountKeys) => config # None

\* The file asks for 30: the run has failed with nothing requested.
C6_Witness ==
    /\ pc = "failed" /\ config = None /\ calls = <<>>
    /\ Val(cfgFile).account # None
    /\ "investAmount" \in DOMAIN Val(Val(cfgFile).account)
    /\ RawInvest = Chars("30")

\* C7 as claimed: a submit-order response that carries an errors array,
\* whatever its transport status, ends the session: the run has failed, the
\* order is the last request made and it took no cash.
C7_ErrorsFatal ==
    \A i \in Orders :
        calls[i].errors => /\ pc = "failed"
                           /\ i = Len(calls)
                           /\ i \notin Confirmed

\* C8: a gateway operation that reports a transport failure is the last one
\* invoked in the run, and the run has failed.
C8_NoRetry ==
    \A i \in DOMAIN calls :
        ~calls[i].ok => i = Len(calls) /\ pc = "failed" /\ error = "HTTPError"

\* An order failed in transport after another order had succeeded.
C8_Witness ==
    /\ pc = "failed"
    /\ Confirmed # {}
    /\ calls[Len(calls)].op = "submitOrder" /\ ~calls[Len(calls)].ok

\* C9: no loan id appears in two submit-order requests.
C9_NoDoubleOrder ==
    \A i, j \in Orders : i # j => calls[i].loanId # calls[j].loanId

\* The listing repeats the id of a loan that was ordered, an order failed,
\* and two orders were placed.
C9_Witness ==
    /\ Cardinality(Orders) = 2
    /\ \E j \in Orders : ~calls[j].ok
    /\ \E i \in Orders, a, b \in DOMAIN Val(listing) :
           /\ a # b
           /\ Val(listing)[a].id = calls[i].loanId
           /\ Val(listing)[b].id = calls[i].loanId
           /\ MatchesAll(Val(listing)[a], Val(config).criteria)
           /\ MatchesAll(Val(listing)[b], Val(config).criteria)

\* The portfolios were listed and none has the configured name.
NoPortfolioMatch ==
    /\ portfolios # None
    /\ \A i \in DOMAIN Val(portfolios) :
           Val(portfolios)[i].portfolioName # Val(config).portfolioName

\* C10 as claimed: when no portfolio has the configured name, resolution
\* fails with the error of the explicit check of line 211 (RuntimeError),
\* not with the fault of reading an unassigned variable.
C10_NotFoundError ==
    NoPortfolioMatch => pc = "failed" /\ error = "RuntimeError"


\* The value of a text of digits with at most one point, in hundredths,
\* read digit by digit from the left: v is the value so far, f the number
\* of fraction digits read (-1 before the point).
RECURSIVE Hundredths(_, _, _, _)
Hundredths(chars, i, v, f) ==
    IF i > Len(chars) THEN v
    ELSE IF chars[i] = "." THEN Hundredths(chars, i + 1, v, 0)
    ELSE LET d == CHOOSE k \in 0..9 : Digits[k + 1] = chars[i]
         IN  IF f = -1 THEN Hundredths(chars, i + 1, v * 10 + d * 100, -1)
             ELSE IF f = 0 THEN Hundredths(chars, i + 1, v + d * 10, 1)
             ELSE Hundredths(chars, i + 1, v + d, 2)

DigitChars == {"0", "1", "2", "5"}
Body(chars) == IF chars # <<>> /\ chars[1] \in {"+", "-"} THEN Tail(chars) ELSE chars
\* A text that int() parses: a sign at most, then digits only, one at least.
LooksInt(chars) ==
    Body(chars) # <<>> /\ \A i \in DOMAIN Body(chars) : Body(chars)[i] \in DigitChars
\* A text that Decimal() parses: a sign at most, then digits with at most one
\* point among them, one digit at least.
LooksDec(chars) ==
    /\ \A i \in DOMAIN Body(chars) : Body(chars)[i] \in DigitChars \cup {"."}
    /\ Cardinality({i \in DOMAIN Body(chars) : Body(chars)[i] = "."}) <= 1
    /\ \E i \in DOMAIN Body(chars) : Body(chars)[i] \in DigitChars
NumberOf(chars) ==
    (IF chars[1] = "-" THEN -1 ELSE 1) * Hundredths(Body(chars), 1, 0, -1)

\* What the first cast must give for text c.
FirstCastOk(c, out) ==
    IF LooksInt(c) THEN out = [t |-> "int", n |-> NumberOf(c), s |-> <<>>]
    ELSE IF LooksDec(c) THEN out = [t |-> "dec", n |-> NumberOf(c), s |-> <<>>]
    ELSE out = [t |-> "str", n |-> 0, s |-> c]

\* C11 as claimed: castNum tries the integer parse, then the decimal parse,
\* then keeps the string ("25" -> 25, "0.10" -> 0.10, "B" -> "B"), and
\* casting the result again returns that same result.
C11_Idempotent ==
    /\ Len(casts) >= 2 => FirstCastOk(casts[1].s, casts[2])
    /\ Len(casts) >= 3 => casts[3] = casts[2]

\* C11 as it holds: the parses are tried in that order on a text; casting
\* an integer or string result again returns it, and casting a decimal
\* result again gives the integer it truncates to (0.10 -> 0).
C11_CastOrder ==
    /\ Len(casts) >= 2 =>
           /\ FirstCastOk(casts[1].s, casts[2])
           /\ casts[1].s = <<"2", "5">> => casts[2] = IntV(25)
           /\ casts[1].s = <<"0", ".", "1", "0">> => casts[2] = DecV(10)
           /\ casts[1].s = <<"B">> => casts[2] = StrV(<<"B">>)
    /\ Len(casts) >= 3 =>
           IF casts[2].t = "dec"
             THEN /\ casts[3].t = "int"
                  /\ casts[3].n % 100 = 0
                  /\ IF casts[2].n >= 0
                       THEN casts[3].n <= casts[2].n /\ casts[2].n < casts[3].n + 100
                       ELSE casts[3].n >= casts[2].n /\ casts[2].n > casts[3].n - 100
             ELSE casts[3] = casts[2]

\* "0.10" was cast to the decimal 0.10 and that was cast to the integer 0.
C11_Witness ==
    /\ Len(casts) = 3
    /\ casts[1].s = <<"0", ".", "1", "0">>
    /\ casts[2] = DecV(10)
    /\ casts[3] = IntV(0)


\* Position of loan id in the candidate list (0 when absent).
PosOf(id) ==
    IF \E p \in DOMAIN Val(loans) : Val(loans)[p][1] = id
      THEN CHOOSE p \in DOMAIN Val(loans) : Val(loans)[p][1] = id
      ELSE 0

\* Record i of the listing is the one its candidate was made from: it
\* qualifies and no later qualifying record has its id.
Kept(L, C, i) ==
    /\ MatchesAll(L[i], C)
    /\ \A j \in DOMAIN L : (j > i /\ L[j].id = L[i].id) => ~MatchesAll(L[j], C)

\* C12 as claimed: of two qualifying loans with equal funding ratio, the one
\* listed first by the marketplace precedes the other in the candidate list.
C12_ListingOrder ==
    (Produced /\ Val(config).criteria # <<>>) =>
        LET L == Val(listing)
            C == Val(config).criteria
        IN  \A i, j \in DOMAIN L :
                ( /\ i < j
                  /\ L[i].id # L[j].id
                  /\ Kept(L, C, i) /\ Kept(L, C, j)
                  /\ Ratio(L[i].fundedAmount, L[i].loanAmount)
                         = Ratio(L[j].fundedAmount, L[j].loanAmount) )
                => PosOf(L[i].id) < PosOf(L[j].id)

\* C12 as it holds: candidates with equal funding ratio keep the order in
\* which the id-to-ratio mapping lists them, which is the order of their
\* ids' hash slots and not the order of the listing.
C12_MappingOrder ==
    loans # None =>
        \A p, q \in DOMAIN Val(loans) :
            (p < q /\ Val(loans)[p][2] = Val(loans)[q][2])
                => Val(loans)[p][1] % 8 < Val(loans)[q][1] % 8

\* Loan 2 is listed before loan 1, both qualify with equal ratio, and loan 1
\* comes first in the candidate list.
C12_Witness ==
    /\ Produced /\ Val(config).criteria # <<>>
    /\ Len(Val(listing)) = 2
    /\ Val(listing)[1].id = 2 /\ Val(listing)[2].id = 1
    /\ Len(Val(loans)) = 2
    /\ Val(loans)[1][1] = 1 /\ Val(loans)[2][1] = 2
    /\ Val(loans)[1][2] = Val(loans)[2][2]


\* C13: whenever the driver is about to call buy(), cash has been fetched,
\* cash - reserveCash - investAmount >= 0, and the candidate list is
\* resolved and non-empty; so buy() never fails in the driver for want of
\* cash or of a candidate.
C13_BuyGuarded ==
    /\ pc = "buy" =>
           /\ cash # None
           /\ Val(cash) - Val(config).reserveCash.n - Val(config).investAmount.n >= 0
           /\ loans # None
           /\ Val(loans) # <<>>
    /\ invoked.buy > 0 => error \notin {"AttributeError", "IndexError", "TypeError"}

\* The driver is about to call buy() a second time, with cash exactly at
\* reserve plus one investment and one candidate left.
C13_Witness ==
    /\ pc = "buy"
    /\ invoked.buy = 1
    /\ Val(cash) - Val(config).reserveCash.n - Val(config).investAmount.n = 0
    /\ Len(Val(loans)) = 1


\* The candidate list __getLoans makes of the listing that was fetched.
InitialCandidates ==
    getLoans([ok |-> TRUE, loans |-> Val(listing)], Val(config).criteria).loans

\* C14: the driver cannot run for ever and cannot stop short of DONE or
\* FAILED when every gateway call returns: each step of the loop is one
\* more call of hasCash(), hasLoans() or buy(), a step is possible until
\* DONE or FAILED, hasCash() and hasLoans() are called at most once more
\* than buy(), and, whatever amounts the marketplace confirms, zero
\* included, buy() is called at most once per candidate of the initial
\* candidate list (and never before the list is resolved).
C14_Terminates ==
    /\ [](pc \notin {"done", "failed"} => ENABLED Next)
    /\ [][pc # "start" => TotalInvoked' = TotalInvoked + 1]_vars
    /\ [](invoked.hasCash <= invoked.buy + 1 /\ invoked.hasLoans <= invoked.buy + 1)
    /\ [](loans = None => invoked.buy = 0)
    /\ [](loans # None => invoked.buy <= Len(InitialCandidates))

\* The loop has ended normally after three purchases confirmed with amount
\* zero, one per candidate, with cash as it was fetched.
C14_Witness ==
    /\ pc = "done"
    /\ loans = Some(<<>>)
    /\ Len(InitialCandidates) = 3
    /\ invoked.buy = 3
    /\ \A i \in Orders : calls[i].invested = Some(0)
    /\ cash = cash0


\* The step submits an order: a submit-order call is added to the calls.
SubmitsOrder ==
    /\ Len(calls') > Len(calls)
    /\ calls'[Len(calls')].op = "submitOrder"

\* C15: once the candidate list is resolved, a call of hasCash() or
\* hasLoans() leaves it as it is, a step that submits no order leaves it as
\* it is, and a step that submits an order, accepted or not, removes the
\* first candidate, the one ordered, and leaves the rest in place; nothing
\* is ever added or reordered.
C15_OnlyShrinks ==
    [][loans # None =>
         /\ (invoked'.hasCash # invoked.hasCash \/ invoked'.hasLoans # invoked.hasLoans)
                => loans' = loans
         /\ IF SubmitsOrder
              THEN /\ Val(loans) # <<>>
                   /\ loans' = Some(Tail(Val(loans)))
                   /\ calls'[Len(calls')].loanId = Head(Val(loans))[1]
              ELSE loans' = loans
      ]_vars

\* An order was refused by the marketplace and its candidate is gone from
\* the list all the same, with the second candidate left.
C15_Witness ==
    /\ loans # None
    /\ Cardinality(Orders) = 1
    /\ ~calls[Len(calls)].ok /\ calls[Len(calls)].op = "submitOrder"
    /\ error = "HTTPError"
    /\ Len(InitialCandidates) = 2
    /\ Val(loans) = Tail(InitialCandidates)


\* C16: buy() resolves the portfolio before it pops a candidate and posts
\* the order: when the first buy() has failed on the portfolio (the request
\* failed, no name matched or the id was null) the candidate list is whole,
\* no order was submitted and cash is what was fetched; and every order
\* follows a list-portfolios call that succeeded.
C16_PortfolioFirst ==
    /\ (invoked.buy >= 1 /\ portfolioId = None) =>
           /\ pc = "failed"
           /\ invoked.buy = 1
           /\ error \in {"HTTPError", "UnboundLocalError", "RuntimeError"}
           /\ calls[Len(calls)].op = "listPortfolios"
           /\ Orders = {}
           /\ loans = Some(InitialCandidates)
           /\ cash = cash0
    /\ \A i \in Orders :
           \E j \in CallsOf("listPortfolios") : j < i /\ calls[j].ok

\* The first buy() failed on a portfolio list without the configured name,
\* with two candidates waiting.
C16_Witness ==
    /\ pc = "failed"
    /\ invoked.buy = 1
    /\ portfolioId = None
    /\ portfolios # None /\ NoPortfolioMatch
    /\ Len(Val(loans)) = 2
    /\ Orders = {}
    /\ cash = cash0


\* C17 as claimed: with an empty criteria mapping every loan of the listing
\* is a candidate, and the candidate list is non-empty (hasLoans() is true)
\* whenever the listing is.
C17_EmptyCriteriaAll ==
    (Produced /\ Val(config).criteria = <<>>) =>
        /\ \A i \in DOMAIN Val(listing) : Val(listing)[i].id \in CandidateIds
        /\ Val(listing) # <<>> => Val(loans) # <<>>


\* The listing has a record with loanAmount 0 that equals the criteria's
\* value on every key.
ZeroAmountMatch ==
    \E i \in DOMAIN Val(listing) :
        /\ Val(listing)[i].loanAmount = 0
        /\ MatchesAll(Val(listing)[i], Val(config).criteria)

\* C18 as claimed: when a loan of the listing satisfies every criterion and
\* has loanAmount 0, the first hasLoans() raises, the session ends FAILED
\* with the candidate list unresolved and no order submitted; and the
\* division raises only for such a loan.
C18_ZeroAmountRaises ==
    /\ (listing # None /\ ZeroAmountMatch) =>
           /\ pc = "failed"
           /\ invoked.hasLoans = 1
           /\ error # "none"
           /\ loans = None
           /\ Orders = {}
    /\ error = "ZeroDivisionError" => (listing # None /\ ZeroAmountMatch)

\* The same with the empty criteria mapping left out.
C18_NonEmptyCriteria ==
    (config # None /\ Val(config).criteria # <<>>) => C18_ZeroAmountRaises


\* C19: the driver calls hasCash() before hasLoans(), and when the cash
\* first fetched is short of reserveCash + investAmount the session ends
\* DONE with get-cash as its only gateway call: loans and portfolio are
\* never requested and no order is submitted.
C19_ShortCircuit ==
    /\ invoked.hasLoans <= invoked.hasCash
    /\ invoked.hasLoans > 0 => cash # None
    /\ ( /\ cash0 # None
         /\ IsNum(Val(config).reserveCash)
         /\ Val(cash0) - Val(config).reserveCash.n - Val(config).investAmount.n < 0 )
       => /\ pc = "done"
          /\ Len(calls) = 1 /\ calls[1].op = "getCash"
          /\ invoked = [hasCash |-> 1, hasLoans |-> 0, buy |-> 0]
          /\ loans = None /\ listing = None
          /\ portfolioId = None /\ portfolios = None
          /\ cash = cash0

\* Cash of 60.00 with a reserve of 12.50 and investments of 50: the session
\* is DONE after the get-cash call.
C19_Witness ==
    /\ pc = "done"
    /\ cash0 = Some(60 * 100)
    /\ Val(config).reserveCash = DecV(1250)
    /\ Val(config).investAmount = IntV(50)
    /\ Len(calls) = 1 /\ calls[1].op = "getCash"


\* Every order confirmed so far was confirmed for an amount between 0 and
\* the amount requested.
ConfirmedWithinRequest ==
    \A i \in Confirmed :
        0 <= Val(calls[i].invested) /\ Val(calls[i].invested) <= calls[i].requested

\* C20: if every order was confirmed for an amount between 0 and the
\* requested investAmount, then in every state of the driver after a
\* purchase the local cash is at least reserveCash.
C20_ReserveKept ==
    (Confirmed # {} /\ ConfirmedWithinRequest) =>
        /\ cash # None
        /\ Val(cash) >= Val(config).reserveCash.n

\* The same without the condition on the confirmed amounts.
C20_AnyAmount ==
    Confirmed # {} => Val(cash) >= Val(config).reserveCash.n

\* A purchase at the full amount has left cash between the reserve of 12.50
\* and the reserve plus one investment, and the loop has ended.
C20_Witness ==
    /\ Cardinality(Confirmed) >= 1
    /\ ConfirmedWithinRequest
    /\ \E i \in Confirmed : Val(calls[i].invested) = calls[i].requested
    /\ Val(config).reserveCash = DecV(1250)
    /\ Val(cash) - Val(config).reserveCash.n < Val(config).investAmount.n
    /\ pc = "done"

=============================================================================
